---------------------------- MODULE Spec2Model ----------------------------
(***************************************************************************)
(* The libsequence.variant_matrix extension module of pylibseq             *)
(* (src/libsequence/src/variant_matrix.cc): the pybind11 layer over the    *)
(* native Sequence::VariantMatrix, its row/column views, StateCounts,      *)
(* process_variable_sites, filter_sites and filter_haplotypes.             *)
(*                                                                         *)
(* The binding layer is translated from the source.  The native core it    *)
(* calls (the Sequence:: headers of lines 6-9) is modelled from its        *)
(* specified contract; those definitions are marked "native".              *)
(***************************************************************************)
EXTENDS Integers, Sequences, FiniteSets, TLC

\* ------------------------------------------------------------------ bounds
\* Largest number of cells (nsites * nsam) of an input matrix, and largest
\* number of sites of a matrix without samples.
MaxCells == 6
\* Largest number of cells of a matrix whose sites are counted.
MaxCountCells == 5
\* Largest number of calls made on one StateCounts object.
MaxApply == 2
\* Largest number of views taken from one store.
MaxViews == 2
\* Largest number of Python references held to one object.
MaxRefs == 2

\* ------------------------------------------------------- values of a cell
\* native: VariantMatrix::mask, the reserved missing-data state (line 147).
mask == -128
\* The allelic states the filtering inputs are drawn from.
Alleles == {0, 1}
\* The positions of an input with ns sites are one of three patterns:
\* increasing, increasing with gaps, all equal.
PosPatterns(ns) ==
    { [i \in 1..ns |-> i], [i \in 1..ns |-> 2 * i], [i \in 1..ns |-> 1] }

VARIABLES
    m,      \* the VariantMatrix object, or NoStore before construction
    last,   \* what the last call was, its arguments and its outcome
    sc,     \* a StateCounts object
    seen,   \* how many non-missing elements the calls on sc that returned
            \* were given
    napply, \* how many calls have been made on sc
    alive,  \* whether the VariantMatrix object has not been deallocated
    refs,   \* the Python references held to the VariantMatrix object
    views   \* the view objects taken from it

vars == <<m, last, sc, seen, napply, alive, refs, views>>

NoStore == [none |-> TRUE]
NoCall == [op |-> "none"]

\* ------------------------------------------------------ native: the store
\* native: Sequence::VariantMatrix(data, positions).  nsites is the number
\* of positions and nsam is inferred as data.length / positions.length; the
\* construction fails when positions.length does not evenly divide
\* data.length.  With no position the only consistent buffer is the empty
\* one, and nothing but nsam = 0 can be inferred from it.
VariantMatrix(data, positions) ==
    IF Len(positions) = 0
    THEN IF Len(data) = 0
         THEN [exc |-> "none",
               store |-> [data |-> <<>>, positions |-> <<>>,
                          nsites |-> 0, nsam |-> 0]]
         ELSE [exc |-> "InvalidShape", store |-> NoStore]
    ELSE IF Len(data) % Len(positions) # 0
         THEN [exc |-> "InvalidShape", store |-> NoStore]
         ELSE [exc |-> "none",
               store |-> [data |-> data, positions |-> positions,
                          nsites |-> Len(positions),
                          nsam |-> Len(data) \div Len(positions)]]

\* native: get_ConstRowView(m, i) read out by as_list (lines 259-268): the
\* nsam contiguous elements at offset i * nsam.  i counts from 0.
RowView(s, i) == [j \in 1..s.nsam |-> s.data[i * s.nsam + j]]

\* native: get_ConstColView(m, j) read out by as_list (lines 212-221): the
\* nsites elements at offset j, stride nsam.  j counts from 0.
ColView(s, j) == [i \in 1..s.nsites |-> s.data[(i - 1) * s.nsam + j + 1]]

\* ------------------------------------------------- the predicate callbacks
\* The callables handed to the filters.  Each maps a view to "remove"
\* (True), "keep" (False) or "raise" (the callable raised): never and always
\* are constant, has1 removes a view holding a 1, first0 removes a view
\* whose first element is 0 and raises on an empty view, uniform removes a
\* view of zeros, keeps a view of ones and raises on a mixed one.
Predicates == {"never", "always", "has1", "first0", "uniform"}

Has(view, x) == \E k \in 1..Len(view) : view[k] = x

PredEval(f, view) ==
    CASE f = "never"  -> "keep"
      [] f = "always" -> "remove"
      [] f = "has1"   -> IF Has(view, 1) THEN "remove" ELSE "keep"
      [] f = "first0" -> IF Len(view) = 0 THEN "raise"      \* IndexError
                         ELSE IF view[1] = 0 THEN "remove" ELSE "keep"
      [] f = "uniform" -> IF Has(view, 0) /\ Has(view, 1) THEN "raise"
                          ELSE IF Has(view, 1) THEN "keep" ELSE "remove"


\* ------------------------------------------------- native: the two filters
\* native: the decision pass of a filter.  The predicate is called on the
\* views in index order, each view read from the buffer as it is before any
\* compaction; the pass stops at the first call that raises.
RECURSIVE Decide(_, _, _, _)
Decide(vws, f, k, acc) ==
    IF k > Len(vws) THEN acc
    ELSE LET r == PredEval(f, vws[k])
             calls == Append(acc.calls, vws[k])
         IN IF r = "raise"
            THEN [acc EXCEPT !.raised = TRUE, !.calls = calls]
            ELSE Decide(vws, f, k + 1,
                        [acc EXCEPT !.remove = Append(@, r = "remove"),
                                    !.calls = calls])

NoDecision == [raised |-> FALSE, remove |-> <<>>, calls |-> <<>>]

\* native: the row compaction of filter_sites, in place: row i (from 1) is
\* read, and written at row w (from 0) when it is retained; positions move
\* with their rows and the tail is cut.
RECURSIVE CompactSites(_, _, _, _, _, _)
CompactSites(nsam, remove, i, w, buf, pos) ==
    IF i > Len(remove)
    THEN [data |-> SubSeq(buf, 1, w * nsam), positions |-> SubSeq(pos, 1, w),
          nsites |-> w, nsam |-> nsam]
    ELSE IF remove[i]
         THEN CompactSites(nsam, remove, i + 1, w, buf, pos)
         ELSE CompactSites(nsam, remove, i + 1, w + 1,
                  [k \in 1..Len(buf) |->
                      IF k > w * nsam /\ k <= (w + 1) * nsam
                      THEN buf[(i - 1) * nsam + (k - w * nsam)]
                      ELSE buf[k]],
                  [pos EXCEPT ![w + 1] = pos[i]])

\* native: the column compaction of filter_haplotypes, in place: cell r
\* (from 1) is read, and written after the w cells already kept when its
\* column is retained.
RECURSIVE CompactHaplotypes(_, _, _, _, _)
CompactHaplotypes(nsam, remove, r, w, buf) ==
    IF r > Len(buf) THEN SubSeq(buf, 1, w)
    ELSE IF remove[((r - 1) % nsam) + 1]
         THEN CompactHaplotypes(nsam, remove, r + 1, w, buf)
         ELSE CompactHaplotypes(nsam, remove, r + 1, w + 1,
                                [buf EXCEPT ![w + 1] = buf[r]])

Retained(remove) == Cardinality({k \in 1..Len(remove) : ~remove[k]})

\* native_filter_sites with the compaction done while the predicate is still
\* being called: a row is moved as soon as it is known to stay, so a
\* raising predicate leaves the rows moved so far.
RECURSIVE EagerSites(_, _, _, _, _, _, _)
EagerSites(s, f, i, w, buf, pos, calls) ==
    IF i > s.nsites
    THEN [store |-> [data |-> SubSeq(buf, 1, w * s.nsam),
                     positions |-> SubSeq(pos, 1, w),
                     nsites |-> w, nsam |-> s.nsam],
          exc |-> "none", calls |-> calls]
    ELSE LET view == [j \in 1..s.nsam |-> buf[(i - 1) * s.nsam + j]]
             r == PredEval(f, view)
         IN IF r = "raise"
            THEN [store |-> [s EXCEPT !.data = buf, !.positions = pos],
                  exc |-> "PredicateError", calls |-> Append(calls, view)]
            ELSE IF r = "remove"
            THEN EagerSites(s, f, i + 1, w, buf, pos, Append(calls, view))
            ELSE EagerSites(s, f, i + 1, w + 1,
                     [k \in 1..Len(buf) |->
                         IF k > w * s.nsam /\ k <= (w + 1) * s.nsam
                         THEN buf[(i - 1) * s.nsam + (k - w * s.nsam)]
                         ELSE buf[k]],
                     [pos EXCEPT ![w + 1] = pos[i]], Append(calls, view))

native_filter_sites_eager(s, f) ==
    EagerSites(s, f, 1, 0, s.data, s.positions, <<>>)

\* native: Sequence::filter_sites(m, f).  A raising predicate aborts the
\* call before anything is written.
native_filter_sites(s, f) ==
    LET d == Decide([i \in 1..s.nsites |-> RowView(s, i - 1)], f, 1, NoDecision)
    IN IF d.raised
       THEN [store |-> s, exc |-> "PredicateError", calls |-> d.calls]
       ELSE [store |-> CompactSites(s.nsam, d.remove, 1, 0, s.data, s.positions),
             exc |-> "none", calls |-> d.calls]

\* native: Sequence::filter_haplotypes(m, f).
native_filter_haplotypes(s, f) ==
    LET d == Decide([j \in 1..s.nsam |-> ColView(s, j - 1)], f, 1, NoDecision)
    IN IF d.raised
       THEN [store |-> s, exc |-> "PredicateError", calls |-> d.calls]
       ELSE [store |-> [s EXCEPT
                 !.data = CompactHaplotypes(s.nsam, d.remove, 1, 0, s.data),
                 !.nsam = Retained(d.remove)],
             exc |-> "none", calls |-> d.calls]

\* ------------------------------------------- native: counting the states
\* native: the number of allelic states a StateCounts has a counter for; a
\* non-missing element outside 0..NumStates-1 is an invalid state.
NumStates == 3
\* native: the refstate of a StateCounts built without one.
Unset == -1

\* native: StateCounts() and StateCounts(refstate), all counters zero.
StateCounts(refstate) ==
    [counts |-> [a \in 0..(NumStates - 1) |-> 0], refstate |-> refstate,
     n |-> 0]

RECURSIVE Fold(_, _, _)
Fold(c, view, k) ==
    IF k > Len(view) THEN c
    ELSE IF view[k] = mask THEN Fold(c, view, k + 1)
    ELSE Fold([c EXCEPT !.counts[view[k]] = @ + 1, !.n = @ + 1], view, k + 1)

\* native: StateCounts::operator()(view).  Every element other than mask
\* adds one to its state's counter and to n; an element outside the
\* alphabet fails the call before anything is counted.
Apply(c, view) ==
    IF \E k \in 1..Len(view) :
          view[k] # mask /\ view[k] \notin 0..(NumStates - 1)
    THEN [exc |-> "InvalidState", sc |-> c]
    ELSE [exc |-> "none", sc |-> Fold(c, view, 1)]

\* A site is variable when more than one state has a nonzero count.
IsVariable(c) ==
    Cardinality({a \in 0..(NumStates - 1) : c.counts[a] > 0}) > 1

\* native: the scan of process_variable_sites: a fresh StateCounts per
\* site, seeded with that site's reference state, applied to the site's
\* row and kept when the site is variable.  i counts from 0.
RECURSIVE Scan(_, _, _, _)
Scan(s, refAt, i, out) ==
    IF i >= s.nsites THEN [exc |-> "none", out |-> out]
    ELSE LET r == Apply(StateCounts(refAt[i + 1]), RowView(s, i))
         IN IF r.exc # "none" THEN [exc |-> r.exc, out |-> <<>>]
            ELSE Scan(s, refAt, i + 1,
                      IF IsVariable(r.sc) THEN Append(out, r.sc) ELSE out)

\* native: Sequence::process_variable_sites(m), (m, refstate) and
\* (m, refstates).
native_pvs_absent(s) == Scan(s, [i \in 1..s.nsites |-> Unset], 0, <<>>)
native_pvs_scalar(s, v) == Scan(s, [i \in 1..s.nsites |-> v], 0, <<>>)
native_pvs_sequence(s, vs) ==
    IF Len(vs) # s.nsites THEN [exc |-> "InvalidShape", out |-> <<>>]
    ELSE Scan(s, vs, 0, <<>>)

\* ------------------------------------------------------------ the bindings
\* The two filter bindings with the native functions exchanged.
filter_haplotypes_misbound(s, f) == native_filter_sites(s, f)
filter_sites_misbound(s, f) == native_filter_haplotypes(s, f)

\* m.def("filter_haplotypes", &Sequence::filter_haplotypes, ...)
filter_haplotypes(s, f) == native_filter_haplotypes(s, f)

\* m.def("filter_sites", &Sequence::filter_sites, ...)
filter_sites(s, f) == native_filter_sites(s, f)

\* .def("site", ...): get_ConstRowView, bounds-checked.
site(s, i) ==
    IF i >= s.nsites THEN [exc |-> "OutOfRange", view |-> <<>>]
    ELSE [exc |-> "none", view |-> RowView(s, i)]

\* .def("sample", ...): get_ConstColView, bounds-checked.
sample(s, j) ==
    IF j >= s.nsam THEN [exc |-> "OutOfRange", view |-> <<>>]
    ELSE [exc |-> "none", view |-> ColView(s, j)]

\* StateCounts.__call__ with the object taken by value: the counts go to a
\* copy and the Python object keeps its own.
StateCounts_call_by_value(c, r) == [Apply(c, r) EXCEPT !.sc = c]

\* StateCounts.__call__: [](Sequence::StateCounts &c, ...RowView &r) { c(r); }
StateCounts_call(c, r) == Apply(c, r)

\* The refstates argument of process_variable_sites, a Python object:
\* None, an int (its value in v) or a list of ints (its elements in vs).
InInt8(v) == v >= -128 /\ v <= 127

\* py::int_ rs(refstates); rs.cast<std::int8_t>()
py_int8(refstates) ==
    IF refstates.kind = "int" /\ InInt8(refstates.v)
    THEN [exc |-> "none", v |-> refstates.v]
    ELSE [exc |-> "cast_error", v |-> 0]

\* refstates.cast<std::vector<std::int8_t>>()
py_vector_int8(refstates) ==
    IF refstates.kind = "list"
       /\ \A k \in 1..Len(refstates.vs) : InInt8(refstates.vs[k])
    THEN [exc |-> "none", v |-> refstates.vs]
    ELSE [exc |-> "cast_error", v |-> <<>>]

\* What the binding returns or raises, and the native scans it ran.
Outcome(r, scans) == [exc |-> r.exc, out |-> r.out, scans |-> scans]

\* The sequence interpretation, reached when the scalar one did not return.
pvs_as_sequence(s, refstates, scans) ==
    LET vs == py_vector_int8(refstates)
    IN IF vs.exc # "none"
       THEN [exc |-> vs.exc, out |-> <<>>, scans |-> scans]
       ELSE Outcome(native_pvs_sequence(s, vs.v), Append(scans, "sequence"))

\* process_variable_sites with the result of the scalar scan not returned.
process_variable_sites_no_return(s, refstates) ==
    IF refstates.kind = "none"
    THEN Outcome(native_pvs_absent(s), <<"absent">>)
    ELSE LET rs == py_int8(refstates)
         IN IF rs.exc = "none"
            THEN pvs_as_sequence(s, refstates, <<"scalar">>)
            ELSE pvs_as_sequence(s, refstates, <<>>)

\* m.def("process_variable_sites", [](const VariantMatrix &m,
\* py::object refstates) {...}): None goes to the scan without reference
\* states; otherwise the scalar scan is tried inside try { } catch (...) { },
\* which swallows whatever the conversion or the scan throws, and the
\* sequence scan follows.
process_variable_sites(s, refstates) ==
    IF refstates.kind = "none"
    THEN Outcome(native_pvs_absent(s), <<"absent">>)
    ELSE LET rs == py_int8(refstates)
         IN IF rs.exc = "none"
            THEN LET first == native_pvs_scalar(s, rs.v)
                 IN IF first.exc = "none"
                    THEN Outcome(first, <<"scalar">>)
                    ELSE pvs_as_sequence(s, refstates, <<"scalar">>)
            ELSE pvs_as_sequence(s, refstates, <<>>)

\* ------------------------------------------------- the Python references
\* A view object: not yet taken, live, or deallocated; refs counts the
\* references to it, of which iters are held by iterators made from it.
NoView == [state |-> "none", kind |-> "none", refs |-> 0, iters |-> 0]

\* .def("site", ...) and .def("sample", ...) carry no keep_alive and return
\* the view by value: the references to the store are what they were.
store_refs_after_view(r) == r

\* .def("__iter__", ..., py::keep_alive<0, 1>()): the iterator holds a
\* reference to the view it iterates.
view_refs_after_iter(r) == r + 1

\* py::init<const std::vector<std::int8_t> &, const std::vector<double> &>
init_lists(data, positions) == VariantMatrix(data, positions)

\* A numpy array: its number of dimensions, its shape and its elements in
\* C order (c_style | forcecast).
Product(shape) ==
    CASE Len(shape) = 1 -> shape[1]
      [] Len(shape) = 2 -> shape[1] * shape[2]
      [] Len(shape) = 3 -> shape[1] * shape[2] * shape[3]

\* py::init([](py::array_t<std::int8_t, ...> data, py::array_t<double> pos)
init_numpy(data, pos) ==
    IF data.ndim # 2 THEN [exc |-> "InvalidShape", store |-> NoStore]
    ELSE IF pos.ndim # 1 THEN [exc |-> "InvalidShape", store |-> NoStore]
    ELSE IF Product(pos.shape) # data.shape[1]
         THEN [exc |-> "InvalidShape", store |-> NoStore]
    ELSE VariantMatrix(SubSeq(data.flat, 1, Product(data.shape)),
                       SubSeq(pos.flat, 1, Product(pos.shape)))

\* .def_buffer: the exported shape and the strides, in bytes.
SizeofInt8 == 1
\* def_buffer with the two dimensions exchanged.
def_buffer_transposed(s) ==
    [itemsize |-> SizeofInt8, ndim |-> 2,
     shape |-> <<s.nsam, s.nsites>>,
     strides |-> <<SizeofInt8 * s.nsam, SizeofInt8>>]

def_buffer(s) ==
    [itemsize |-> SizeofInt8, ndim |-> 2,
     shape |-> <<s.nsites, s.nsam>>,
     strides |-> <<SizeofInt8 * s.nsam, SizeofInt8>>]

\* py::pickle: __getstate__ and __setstate__.
getstate(s) == <<s.data, s.positions>>

setstate(t) ==
    IF Len(t) # 2 THEN [exc |-> "RuntimeError", store |-> NoStore]
    ELSE VariantMatrix(t[1], t[2])

\* ------------------------------------------------------------- the inputs
FlatData == UNION { [1..n -> Alleles] : n \in 0..MaxCells }
FlatPositions == UNION { PosPatterns(n) : n \in 0..MaxCells }

Shapes2 == { <<r, c>> : r \in 0..MaxCells, c \in 0..MaxCells }
DataArrays ==
    UNION { { [ndim |-> 2, shape |-> sh, flat |-> fl] :
                fl \in [1..(sh[1] * sh[2]) -> Alleles] } :
            sh \in { x \in Shapes2 : x[1] * x[2] <= MaxCells } }
    \cup { [ndim |-> 1, shape |-> <<n>>, flat |-> [k \in 1..n |-> 0]] :
             n \in 0..2 }
    \cup { [ndim |-> 3, shape |-> <<n, 1, 1>>, flat |-> [k \in 1..n |-> 0]] :
             n \in 0..2 }
PosArrays ==
    UNION { { [ndim |-> 1, shape |-> <<n>>, flat |-> fl] :
                fl \in PosPatterns(n) } : n \in 0..MaxCells }
    \cup { [ndim |-> 2, shape |-> <<n, 1>>, flat |-> [k \in 1..n |-> k]] :
             n \in 0..2 }

\* ------------------------------------------------------------ the actions
NoViews == [v \in 1..MaxViews |-> NoView]

CountIdle == sc = StateCounts(Unset) /\ seen = 0 /\ napply = 0
LifeIdle == alive = TRUE /\ refs = 1 /\ views = NoViews

Init == m = NoStore /\ last = NoCall /\ CountIdle /\ LifeIdle

InitLists ==
    /\ m = NoStore /\ last = NoCall
    /\ \E data \in FlatData, positions \in FlatPositions :
          LET r == init_lists(data, positions)
          IN /\ m' = r.store
             /\ last' = [op |-> "init_lists", exc |-> r.exc]
    /\ UNCHANGED <<sc, seen, napply, alive, refs, views>>

InitNumpy ==
    /\ m = NoStore /\ last = NoCall
    /\ \E data \in DataArrays, pos \in PosArrays :
          LET r == init_numpy(data, pos)
          IN /\ m' = r.store
             /\ last' = [op |-> "init_numpy", data |-> data, pos |-> pos,
                         exc |-> r.exc]
    /\ UNCHANGED <<sc, seen, napply, alive, refs, views>>

FilterSites(f) ==
    /\ m # NoStore
    /\ LET r == filter_sites(m, f)
       IN /\ m' = r.store
          /\ last' = [op |-> "filter_sites", f |-> f, pre |-> m,
                      exc |-> r.exc, calls |-> r.calls]
    /\ UNCHANGED <<sc, seen, napply, alive, refs, views>>

FilterHaplotypes(f) ==
    /\ m # NoStore
    /\ LET r == filter_haplotypes(m, f)
       IN /\ m' = r.store
          /\ last' = [op |-> "filter_haplotypes", f |-> f, pre |-> m,
                      exc |-> r.exc, calls |-> r.calls]
    /\ UNCHANGED <<sc, seen, napply, alive, refs, views>>

Pickle ==
    /\ m # NoStore
    /\ LET r == setstate(getstate(m))
       IN last' = [op |-> "pickle", pre |-> m, exc |-> r.exc,
                   restored |-> r.store]
    /\ UNCHANGED <<m, sc, seen, napply, alive, refs, views>>

Next ==
    \/ InitLists
    \/ InitNumpy
    \/ \E f \in Predicates : FilterSites(f)
    \/ \E f \in Predicates : FilterHaplotypes(f)
    \/ Pickle

Spec == Init /\ [][Next]_vars

\* ----------------------------------------------- counting: SpecCount
\* The stores whose sites are counted: built by the list constructor from
\* cells that are an allelic state, mask, or a value outside the alphabet.
CountValues == {0, 1, mask, -1}
CountStores ==
    { r.store :
        r \in { x \in { init_lists(d, [i \in 1..n |-> i]) :
                          d \in UNION { [1..k -> CountValues] :
                                          k \in 0..MaxCountCells },
                          n \in 0..MaxCountCells } :
                x.exc = "none" } }

\* The refstates arguments tried on a store.
RefArgs(s) ==
    { [kind |-> "none", v |-> 0, vs |-> <<>>] }
    \cup { [kind |-> "int", v |-> v, vs |-> <<>>] : v \in {0, 1} }
    \cup { [kind |-> "list", v |-> 0, vs |-> [i \in 1..n |-> i % 2]] :
             n \in { x \in {s.nsites - 1, s.nsites, s.nsites + 1} : x >= 0 } }

NonMissing(view) == Cardinality({k \in 1..Len(view) : view[k] # mask})

InitCount ==
    /\ m \in CountStores
    /\ last = NoCall /\ CountIdle /\ LifeIdle

\* sc(m.site(i)).  Calls on sc and process_variable_sites leave the store
\* alone and do not read each other's results, so a behaviour makes the
\* calls on sc or the one scan.
ApplySite ==
    /\ last = NoCall /\ napply < MaxApply
    /\ \E i \in 0..m.nsites :
          LET v == site(m, i)
              r == StateCounts_call(sc, v.view)
          IN IF v.exc # "none"
             THEN UNCHANGED <<sc, seen>>
             ELSE /\ sc' = r.sc
                  /\ seen' = IF r.exc = "none" THEN seen + NonMissing(v.view)
                             ELSE seen
    /\ napply' = napply + 1
    /\ UNCHANGED <<m, last, alive, refs, views>>

ProcessVariableSites ==
    /\ last = NoCall /\ napply = 0
    /\ \E refstates \in RefArgs(m) :
          LET r == process_variable_sites(m, refstates)
          IN last' = [op |-> "process_variable_sites", pre |-> m,
                      refstates |-> refstates, exc |-> r.exc, out |-> r.out,
                      scans |-> r.scans]
    /\ UNCHANGED <<m, sc, seen, napply, alive, refs, views>>

NextCount == ApplySite \/ ProcessVariableSites

SpecCount == InitCount /\ [][NextCount]_vars

\* ------------------------------------------------- lifetimes: SpecLife
\* The store of the constructor's docstring: VariantMatrix([0,1,1,0],
\* [0.1,0.2]), with one reference held by the caller.
InitLife ==
    /\ m = init_lists(<<0, 1, 1, 0>>, <<1, 2>>).store
    /\ last = NoCall /\ CountIdle /\ LifeIdle

\* v = m.site(i) or v = m.sample(i), through a reference to the store.
TakeView(kind) ==
    /\ alive /\ refs > 0
    /\ \E v \in 1..MaxViews, i \in 0..1 :
          /\ views[v].state = "none"
          /\ (IF kind = "site" THEN site(m, i) ELSE sample(m, i)).exc = "none"
          /\ views' = [views EXCEPT ![v] =
                          [state |-> "live", kind |-> kind, refs |-> 1,
                           iters |-> 0]]
    /\ refs' = store_refs_after_view(refs)
    /\ UNCHANGED <<m, last, sc, seen, napply, alive>>

\* Another name bound to the store.
NewStoreRef ==
    /\ alive /\ refs > 0 /\ refs < MaxRefs
    /\ refs' = refs + 1
    /\ UNCHANGED <<m, last, sc, seen, napply, alive, views>>

\* A reference to the store dropped; with the last one it is deallocated.
DelStoreRef ==
    /\ alive /\ refs > 0
    /\ refs' = refs - 1
    /\ alive' = (refs' > 0)
    /\ UNCHANGED <<m, last, sc, seen, napply, views>>

\* it = iter(v), through a reference to the view that is not an iterator's.
IterView ==
    /\ \E v \in 1..MaxViews :
          /\ views[v].state = "live"
          /\ views[v].refs > views[v].iters
          /\ views[v].refs < MaxRefs
          /\ views' = [views EXCEPT ![v].refs = view_refs_after_iter(@),
                                    ![v].iters = @ + 1]
    /\ UNCHANGED <<m, last, sc, seen, napply, alive, refs>>

\* An iterator dropped, and with it its reference to the view.
DelIter ==
    /\ \E v \in 1..MaxViews :
          /\ views[v].state = "live" /\ views[v].iters > 0
          /\ views' = [views EXCEPT
                          ![v].refs = @ - 1, ![v].iters = @ - 1,
                          ![v].state = IF views[v].refs = 1 THEN "dead" ELSE @]
    /\ UNCHANGED <<m, last, sc, seen, napply, alive, refs>>

\* The caller's reference to a view dropped.
DelViewRef ==
    /\ \E v \in 1..MaxViews :
          /\ views[v].state = "live"
          /\ views[v].refs > views[v].iters
          /\ views' = [views EXCEPT
                          ![v].refs = @ - 1,
                          ![v].state = IF views[v].refs = 1 THEN "dead" ELSE @]
    /\ UNCHANGED <<m, last, sc, seen, napply, alive, refs>>

NextLife ==
    \/ TakeView("site")
    \/ TakeView("sample")
    \/ NewStoreRef
    \/ DelStoreRef
    \/ IterView
    \/ DelIter
    \/ DelViewRef

SpecLife == InitLife /\ [][NextLife]_vars

\* ------------------------------------------------- the claims, under Spec
IsFilter == last.op \in {"filter_sites", "filter_haplotypes"}

\* The views a filter call has to decide on, read from the store as it was
\* when the call started.
PreViews ==
    IF last.op = "filter_sites"
    THEN [i \in 1..last.pre.nsites |-> RowView(last.pre, i - 1)]
    ELSE [j \in 1..last.pre.nsam |-> ColView(last.pre, j - 1)]

\* The indices (from 1) of the views the predicate does not remove.
KeptOf(vws, f) ==
    SelectSeq([i \in 1..Len(vws) |-> i],
              LAMBDA i : PredEval(f, vws[i]) = "keep")

AllRemoved == \A k \in 1..Len(PreViews) : PredEval(last.f, PreViews[k]) = "remove"
SomeRaise == \E k \in 1..Len(PreViews) : PredEval(last.f, PreViews[k]) = "raise"

\* The byte offsets the exported shape and strides reach.
BufferOffsets(b) ==
    { i * b.strides[1] + j * b.strides[2] :
        i \in 0..(b.shape[1] - 1), j \in 0..(b.shape[2] - 1) }

\* C1: in every state with a store, after construction and after any
\* sequence of filter_sites and filter_haplotypes calls, data holds
\* nsites * nsam cells and positions nsites entries, the exported buffer has
\* shape (nsites, nsam) and strides (nsam, 1) and reaches exactly the cells
\* of data, and a filter whose predicate removes everything returns without
\* error and leaves a zero-sized matrix.
C1_ShapeInvariant ==
    m # NoStore =>
        /\ Len(m.data) = m.nsites * m.nsam
        /\ Len(m.positions) = m.nsites
        /\ def_buffer(m).shape = <<m.nsites, m.nsam>>
        /\ def_buffer(m).strides = <<m.nsam, 1>>
        /\ BufferOffsets(def_buffer(m)) = 0..(Len(m.data) - 1)
        /\ (IsFilter /\ AllRemoved) =>
              /\ last.exc = "none"
              /\ Len(m.data) = 0
              /\ (m.nsites = 0 \/ m.nsam = 0)

\* C1 witness: filter_sites has removed every site of a store that had
\* sites and samples, leaving no site and the samples.
C1_Witness ==
    /\ m # NoStore
    /\ last.op = "filter_sites" /\ last.exc = "none"
    /\ last.pre.nsites > 1 /\ last.pre.nsam > 1
    /\ m.nsites = 0 /\ m.nsam > 1

C4_PredicateFailureAtomic ==
    IsFilter =>
        /\ SomeRaise => last.exc = "PredicateError"
        /\ last.exc = "PredicateError" => m = last.pre

\* C4 witness: the predicate raised on the last of three sites after it had
\* asked for the first to be removed and the second to be kept.
C4_Witness ==
    /\ last.op = "filter_sites" /\ last.exc = "PredicateError"
    /\ last.pre.nsites = 3 /\ last.pre.nsam = 2
    /\ Len(last.calls) = 3
    /\ PredEval(last.f, last.calls[1]) = "remove"
    /\ PredEval(last.f, last.calls[2]) = "keep"

\* C7: restoring a store from its pickled pair (data, positions) gives a
\* store with the same nsites, nsam, data and positions.
C7_PickleRoundTrip ==
    last.op = "pickle" =>
        /\ last.exc = "none"
        /\ last.restored.nsites = last.pre.nsites
        /\ last.restored.nsam = last.pre.nsam
        /\ last.restored.data = last.pre.data
        /\ last.restored.positions = last.pre.positions

\* C9: construction from numpy arrays fails with InvalidShape and creates
\* no store when data is not 2-d, pos is not 1-d or len(pos) differs from
\* data.shape[0]; otherwise it succeeds with nsites = data.shape[0],
\* nsam = data.shape[1], the data in row-major order and the positions.
C9_NumpyConstruction ==
    last.op = "init_numpy" =>
        IF \/ last.data.ndim # 2
           \/ last.pos.ndim # 1
           \/ Len(last.pos.flat) # last.data.shape[1]
        THEN last.exc = "InvalidShape" /\ m = NoStore
        ELSE /\ last.exc = "none"
             /\ m # NoStore
             /\ m.nsites = last.data.shape[1]
             /\ m.nsam = last.data.shape[2]
             /\ m.data = last.data.flat
             /\ m.positions = last.pos.flat

\* -------------------------------------------- the claims, under SpecCount
IsScan == last.op = "process_variable_sites"

\* Every cell is missing or a state of the alphabet.
ValidData(s) ==
    \A k \in 1..Len(s.data) :
        s.data[k] = mask \/ s.data[k] \in 0..(NumStates - 1)

\* The reference state the argument gives site i (from 0).
ResolvedRef(a, i) ==
    CASE a.kind = "none" -> Unset
      [] a.kind = "int"  -> a.v
      [] a.kind = "list" -> a.vs[i + 1]

DistinctStates(view) == {view[k] : k \in 1..Len(view)} \ {mask}
CountOf(view, a) == Cardinality({k \in 1..Len(view) : view[k] = a})

\* The sites (from 0) with more than one distinct non-missing state.
VariableSites(s) ==
    SelectSeq([i \in 1..s.nsites |-> i - 1],
              LAMBDA i : Cardinality(DistinctStates(RowView(s, i))) > 1)

RECURSIVE SumUpTo(_, _)
SumUpTo(c, a) == IF a < 0 THEN 0 ELSE c.counts[a] + SumUpTo(c, a - 1)
SumCounts(c) == SumUpTo(c, NumStates - 1)

\* C6: after any sequence of calls on a StateCounts that started all zero,
\* n is the sum of the counts and the number of elements other than mask
\* the calls were given.
C6_CountsSumToN ==
    /\ sc.n = SumCounts(sc)
    /\ sc.n = seen

\* C6 witness: two calls on sites of two samples have been made, and of the
\* four elements one was missing.
C6_Witness ==
    /\ napply = 2 /\ m.nsam = 2
    /\ sc.n = 3 /\ seen = 3

\* The scan the argument's own shape asks for.
DirectScan(s, a) ==
    CASE a.kind = "none" -> native_pvs_absent(s)
      [] a.kind = "int"  -> native_pvs_scalar(s, a.v)
      [] a.kind = "list" -> native_pvs_sequence(s, a.vs)

\* C8: when the scan that the refstates argument asks for fails
\* (InvalidState, or InvalidShape for a sequence of the wrong length), the
\* caller of process_variable_sites gets that failure, and the argument was
\* tried under that one interpretation only.
C8_FailuresPropagate ==
    IsScan =>
        LET d == DirectScan(last.pre, last.refstates)
        IN d.exc # "none" =>
              /\ last.exc = d.exc
              /\ Len(last.scans) = 1

\* --------------------------------------------- the claims, under SpecLife
\* C10: every live view's store has not been deallocated.
C10_ViewsDoNotOutliveStore ==
    \A v \in 1..MaxViews : views[v].state = "live" => alive

==========================================================================
